---- MODULE Spec2Model ----
(***************************************************************************)
(* A model of script-rs (src/main.rs), a terminal-session recorder.        *)
(*                                                                         *)
(* Two processes are modelled: the parent (main, up to and including the   *)
(* relay loop) and the forked child (the Child branch of pty_fork, then    *)
(* the exec in main).  Every system call is one step; a call that returns  *)
(* a Result has a succeeding and a failing outcome.  The kernel objects    *)
(* the calls act on are state: the attributes and window size of the real  *)
(* terminal and of the pty slave, the descriptor table of each process,    *)
(* and the byte streams that were read and written.                        *)
(***************************************************************************)
EXTENDS Integers, Sequences, FiniteSets, TLC

\* ------------------------------------------------------------------ bounds
\* Length of buf; the program uses 256 (main.rs:64), the model a short buffer.
BufSize == 2
\* Bytes are 0..MaxByte; 0 is also the byte buf is filled with.
MaxByte == 1
\* How many times the environment makes a descriptor readable.
MaxEvents == 2
\* Descriptor numbers are 0..MaxFd.
MaxFd == 5

\* --------------------------------------------------------------- constants
STDIN_FILENO == 0
STDOUT_FILENO == 1
STDERR_FILENO == 2

Byte == 0..MaxByte
Fds == 0..MaxFd

\* ---------------------------------------------------------------- termios
\* The flags tty_set_row clears, and one flag of each group it leaves alone.
RawLocalFlags == {"ICANON", "ISIG", "IEXTEN", "ECHO"}
RawInputFlags == {"BRKINT", "ICRNL", "IGNBRK", "IGNCR", "INLCR", "INPCK",
                  "ISTRIP", "IXON", "PARMRK"}
RawOutputFlags == {"OPOST"}

\* Attributes a real terminal can have when the program starts.
Cooked ==
  [local_flags |-> {"ICANON", "ISIG", "IEXTEN", "ECHO", "ECHOE"},
   input_flags |-> {"ICRNL", "IXON", "BRKINT", "IUTF8"},
   output_flags |-> {"OPOST", "ONLCR"},
   vmin |-> 1, vtime |-> 0]

CbreakNoEcho ==
  [local_flags |-> {"ISIG", "ECHOE"},
   input_flags |-> {"IGNCR", "IUTF8"},
   output_flags |-> {"ONLCR"},
   vmin |-> 4, vtime |-> 2]


\* Attributes of a freshly allocated pty slave.
PtyDefaultTermios ==
  [local_flags |-> {"ICANON", "ISIG", "IEXTEN", "ECHO"},
   input_flags |-> {"ICRNL", "IXON"},
   output_flags |-> {"OPOST", "ONLCR"},
   vmin |-> 1, vtime |-> 0]

\* The attribute change of tty_set_row (main.rs:157-170).
RawOf(t) ==
  [local_flags |-> t.local_flags \ RawLocalFlags,
   input_flags |-> t.input_flags \ RawInputFlags,
   output_flags |-> t.output_flags \ RawOutputFlags,
   vmin |-> 1,
   vtime |-> 0]

\* -------------------------------------------------------------- window size
ZeroWinsize == [ws_row |-> 0, ws_col |-> 0, ws_xpixel |-> 0, ws_ypixel |-> 0]

\* The terminals the program can be started on: attributes and window size.
StartTerminals ==
  {[attrs |-> Cooked,
    winsize |-> [ws_row |-> 24, ws_col |-> 80, ws_xpixel |-> 0, ws_ypixel |-> 0]],
   [attrs |-> CbreakNoEcho,
    winsize |-> [ws_row |-> 50, ws_col |-> 132, ws_xpixel |-> 1056,
                 ws_ypixel |-> 65535]]}

\* -------------------------------------------------------------------- paths
\* A path is a directory and a name; the directory "." is the working directory.
ScriptPath == [dir |-> "/tmp", name |-> "script_tmp"]

Resolve(path, dir) ==
  IF path.dir = "." THEN [dir |-> dir, name |-> path.name] ELSE path

\* Invocations: the positional arguments and the working directory.
StartArgs == {<<>>, <<[dir |-> ".", name |-> "session.log"]>>}
StartCwd == {"/tmp", "/home/user"}

\* -------------------------------------------------------------- descriptors
Closed == "closed"

\* The descriptor table the program is started with.
StartFds == [fd \in Fds |-> IF fd <= STDERR_FILENO THEN "tty" ELSE Closed]

\* The tables of a start with one of the three standard descriptors closed
\* (as in `script-rs >&-`), next to the usual one.
StartFdTables ==
  {StartFds} \cup {[StartFds EXCEPT ![fd] = Closed] : fd \in 0..STDERR_FILENO}

FreeFds(fds) == {fd \in Fds : fds[fd] = Closed}

\* open, posix_openpt: the lowest free descriptor number.
LowestFree(fds) == CHOOSE fd \in FreeFds(fds) : \A g \in FreeFds(fds) : fd <= g

AllClosed == [fd \in Fds |-> Closed]

\* ------------------------------------------------------------------- bytes
Zeros == [i \in 1..BufSize |-> 0]

\* The blocks a read can return: 0..BufSize bytes.
Blocks == UNION {[1..n -> Byte] : n \in 0..BufSize}

\* buf after read(fd, &mut buf) returned block: the head is overwritten.
ReadInto(b, block) ==
  [i \in 1..BufSize |-> IF i <= Len(block) THEN block[i] ELSE b[i]]

\* ---------------------------------------------------------------- state
\* Option<T>: <<>> is None, <<x>> is Some(x).
NoneOpt == <<>>
Some(x) == <<x>>
Get(opt) == opt[1]

VARIABLES
  args, cwd,              \* the invocation: positional arguments, working directory
  realTerm, realWs,       \* the real terminal: attributes, window size
  startTerm,              \* the real terminal's attributes when the program started
  slaveTerm, slaveWs,     \* the pty slave: attributes, window size
  slaveOpened,            \* the pty slave has been opened at least once
  ttySets,                \* attribute-setting calls made on the real terminal
  ppc,                    \* parent: position in main
  tty_origin, ws,         \* parent: main's tty_origin and ws
  mfd,                    \* pty_fork's mfd (the same number in parent and child)
  master_fd, script_fd,   \* parent: main's master_fd and script_fd
  pfds,                   \* parent: descriptor table
  buf, in_fds,            \* parent: the loop's buf and in_fds
  cpc,                    \* child: position in pty_fork / main
  cfds,                   \* child: descriptor table
  slave_fd,               \* child: pty_fork's slave_fd
  slave_termios,          \* child: pty_fork's slave_termios argument
  slave_win_size,         \* child: pty_fork's slave_win_size argument
  cfailed,                \* child: the call that failed, if one did
  sReady, mReady,         \* unread input is pending on stdin / on the pty master
  events,                 \* how many times input was made pending
  stdinRead,              \* all bytes returned by reads of stdin
  masterWritten,          \* all bytes accepted by writes to the pty master
  masterRead,             \* all bytes returned by reads of the pty master
  stdoutWritten,          \* all bytes accepted by writes to stdout
  scriptFile,             \* the file opened as transcript
  transcript,             \* the content of that file
  iters,                  \* relay-loop iterations started
  partial,                \* some write call took fewer bytes than it was given
  calls,                  \* the read and write calls of the current iteration
  eofMark                 \* set when a read returns 0 bytes: what had been forwarded

envVars == <<args, cwd, realWs, startTerm>>
termVars == <<realTerm, slaveTerm, ttySets>>
parentVars == <<ppc, tty_origin, ws, mfd, master_fd, script_fd, pfds, buf, in_fds, iters>>
childVars == <<cpc, cfds, slave_fd, slave_termios, slave_win_size, cfailed>>
ptyVars == <<slaveWs, slaveOpened>>
readyVars == <<sReady, mReady, events>>
logVars == <<stdinRead, masterWritten, masterRead, stdoutWritten, scriptFile,
             transcript, eofMark, partial, calls>>

vars == <<envVars, termVars, parentVars, childVars, ptyVars, readyVars, logVars>>

\* The state when main is entered with descriptor table fds.
InitWith(fds) ==
  /\ args \in StartArgs
  /\ cwd \in StartCwd
  /\ \E t \in StartTerminals :
       /\ realTerm = t.attrs
       /\ startTerm = t.attrs
       /\ realWs = t.winsize
  /\ slaveTerm = PtyDefaultTermios
  /\ slaveWs = ZeroWinsize
  /\ slaveOpened = FALSE
  /\ ttySets = <<>>
  /\ ppc = "tcgetattr"
  /\ tty_origin = NoneOpt
  /\ ws = ZeroWinsize
  /\ mfd = NoneOpt
  /\ master_fd = NoneOpt
  /\ script_fd = NoneOpt
  /\ pfds = fds
  /\ buf = Zeros
  /\ in_fds = {}
  /\ iters = 0
  /\ cpc = "unborn"
  /\ cfds = AllClosed
  /\ slave_fd = NoneOpt
  /\ slave_termios = NoneOpt
  /\ slave_win_size = ZeroWinsize
  /\ cfailed = NoneOpt
  /\ sReady = FALSE
  /\ mReady = FALSE
  /\ events = 0
  /\ stdinRead = <<>>
  /\ masterWritten = <<>>
  /\ masterRead = <<>>
  /\ stdoutWritten = <<>>
  /\ scriptFile = NoneOpt
  /\ transcript = <<>>
  /\ eofMark = NoneOpt
  /\ partial = FALSE
  /\ calls = <<>>

Init == InitWith(StartFds)

\* Starts with any of the descriptor tables, for one invocation and terminal.
InitFds ==
  /\ \E fds \in StartFdTables : InitWith(fds)
  /\ args = <<>>
  /\ cwd = "/tmp"
  /\ startTerm = Cooked

\* ------------------------------------------------------- terminal devices
\* tcgetattr(fd) in a process with descriptor table fds.
IsTerminal(fds, fd) == fds[fd] \in {"tty", "pts"}

AttrsOf(fds, fd) == IF fds[fd] = "tty" THEN realTerm ELSE slaveTerm

\* tcsetattr(fd, _, t) succeeding, called by process `by` at the call named op.
SetAttrs(fds, fd, t, by, op) ==
  /\ IsTerminal(fds, fd)
  /\ realTerm' = IF fds[fd] = "tty" THEN t ELSE realTerm
  /\ slaveTerm' = IF fds[fd] = "pts" THEN t ELSE slaveTerm
  /\ ttySets' = IF fds[fd] = "tty"
                THEN Append(ttySets, [by |-> by, op |-> op])
                ELSE ttySets

\* ------------------------------------------------------------- the parent
\* A panic (unwrap, expect, panic!) in the parent.
ParentPanics(others) ==
  /\ ppc' = "panicked"
  /\ UNCHANGED others

\* main.rs:20  tcgetattr(STDIN_FILENO).expect(..)
main_tcgetattr ==
  /\ ppc = "tcgetattr"
  /\ \/ /\ IsTerminal(pfds, STDIN_FILENO)
        /\ tty_origin' = Some(AttrsOf(pfds, STDIN_FILENO))
        /\ ppc' = "tiocgwinsz"
        /\ UNCHANGED <<ws, mfd, master_fd, script_fd, pfds, buf, in_fds, iters>>
     \/ ParentPanics(<<tty_origin, ws, mfd, master_fd, script_fd, pfds, buf, in_fds, iters>>)
  /\ UNCHANGED <<envVars, termVars, childVars, ptyVars, readyVars, logVars>>

\* main.rs:21  ioctl::tiocgwinsz(STDIN_FILENO, &mut ws).expect(..)
main_tiocgwinsz ==
  /\ ppc = "tiocgwinsz"
  /\ \/ /\ ws' = realWs
        /\ ppc' = "pty_master_open"
        /\ UNCHANGED <<tty_origin, mfd, master_fd, script_fd, pfds, buf, in_fds, iters>>
     \/ ParentPanics(<<tty_origin, ws, mfd, master_fd, script_fd, pfds, buf, in_fds, iters>>)
  /\ UNCHANGED <<envVars, termVars, childVars, ptyVars, readyVars, logVars>>

\* main.rs:88-96, 105  posix_openpt, grantpt, unlockpt, ptsname; an error of any
\* of them comes back through pty_fork and main panics (main.rs:28).  main
\* passes slave_name as None, so main.rs:107-109 stores nothing.
pty_master_open ==
  /\ ppc = "pty_master_open"
  /\ \/ /\ FreeFds(pfds) # {}
        /\ mfd' = Some(LowestFree(pfds))
        /\ pfds' = [pfds EXCEPT ![LowestFree(pfds)] = "ptmx"]
        /\ ppc' = "fork"
        /\ UNCHANGED <<tty_origin, ws, master_fd, script_fd, buf, in_fds, iters>>
     \/ ParentPanics(<<tty_origin, ws, mfd, master_fd, script_fd, pfds, buf, in_fds, iters>>)
  /\ UNCHANGED <<envVars, termVars, childVars, ptyVars, readyVars, logVars>>

\* A call of pty_fork that passes the attributes tty_set_row would set.
ForkTermiosRaw == Some(RawOf(Get(tty_origin)))

\* The arguments main passes to pty_fork (main.rs:26): Some(&tty_origin), ws.
ForkTermios == tty_origin

\* A call of pty_fork with rows and columns of the window size exchanged.
ForkWinsizeSwapped ==
  [ws_row |-> ws.ws_col, ws_col |-> ws.ws_row,
   ws_xpixel |-> ws.ws_xpixel, ws_ypixel |-> ws.ws_ypixel]

ForkWinsize == ws

\* main.rs:112-116, 144-147  fork(): the child starts with a copy of the
\* parent's memory and descriptors; the parent keeps the master.
pty_fork_fork ==
  /\ ppc = "fork"
  /\ \/ /\ master_fd' = mfd
        /\ ppc' = "open_script"
        /\ cpc' = "setsid"
        /\ cfds' = pfds
        /\ slave_termios' = ForkTermios
        /\ slave_win_size' = ForkWinsize
        /\ UNCHANGED <<tty_origin, ws, mfd, script_fd, pfds, buf, in_fds, iters,
                       slave_fd, cfailed>>
     \/ /\ pfds' = [pfds EXCEPT ![Get(mfd)] = Closed]
        /\ ppc' = "panicked"
        /\ UNCHANGED <<tty_origin, ws, mfd, master_fd, script_fd, buf, in_fds, iters,
                       childVars>>
  /\ UNCHANGED <<envVars, termVars, ptyVars, readyVars, logVars>>

\* main.rs:49-59  open("/tmp/script_tmp", O_WRONLY | O_CREAT | O_TRUNC, ..).expect(..)
main_open_script ==
  /\ ppc = "open_script"
  /\ \/ /\ FreeFds(pfds) # {}
        /\ script_fd' = Some(LowestFree(pfds))
        /\ pfds' = [pfds EXCEPT ![LowestFree(pfds)] = "script"]
        /\ scriptFile' = Some(Resolve(ScriptPath, cwd))
        /\ transcript' = <<>>
        /\ ppc' = "tty_set_row_get"
        /\ UNCHANGED <<tty_origin, ws, mfd, master_fd, buf, in_fds, iters>>
     \/ /\ ParentPanics(<<tty_origin, ws, mfd, master_fd, script_fd, pfds, buf, in_fds, iters>>)
        /\ UNCHANGED <<scriptFile, transcript>>
  /\ UNCHANGED <<envVars, termVars, childVars, ptyVars, readyVars>>
  /\ UNCHANGED <<stdinRead, masterWritten, masterRead, stdoutWritten, eofMark, partial,
                 calls>>

\* main.rs:60, 152-155  tty_set_row: tcgetattr(fd).unwrap(); *prev = termios.clone()
tty_set_row_get ==
  /\ ppc = "tty_set_row_get"
  /\ \/ /\ IsTerminal(pfds, STDIN_FILENO)
        /\ tty_origin' = Some(AttrsOf(pfds, STDIN_FILENO))
        /\ ppc' = "tty_set_row_set"
        /\ UNCHANGED <<ws, mfd, master_fd, script_fd, pfds, buf, in_fds, iters>>
     \/ ParentPanics(<<tty_origin, ws, mfd, master_fd, script_fd, pfds, buf, in_fds, iters>>)
  /\ UNCHANGED <<envVars, termVars, childVars, ptyVars, readyVars, logVars>>

\* main.rs:157-171  tty_set_row: clear the flags; tcsetattr(fd, TCSAFLUSH, ..).unwrap().
\* prev is always Some, so the local termios is the value stored in tty_origin.
tty_set_row_set ==
  /\ ppc = "tty_set_row_set"
  /\ \/ /\ SetAttrs(pfds, STDIN_FILENO, RawOf(Get(tty_origin)), "parent", "raw")
        /\ ppc' = "tty_reset"
        /\ UNCHANGED <<tty_origin, ws, mfd, master_fd, script_fd, pfds, buf, in_fds, iters>>
     \/ /\ ParentPanics(<<tty_origin, ws, mfd, master_fd, script_fd, pfds, buf, in_fds, iters>>)
        /\ UNCHANGED termVars
  /\ UNCHANGED <<envVars, childVars, ptyVars, readyVars, logVars>>

\* A tty_reset that writes back the attributes tty_set_row has just set.
ResetAttrsRaw == RawOf(Get(tty_origin))

\* The attributes tty_reset writes (main.rs:175): its argument, &mut tty_origin.
ResetAttrs == Get(tty_origin)

\* main.rs:61, 174-176  tty_reset(&mut tty_origin).unwrap()
tty_reset ==
  /\ ppc = "tty_reset"
  /\ \/ /\ SetAttrs(pfds, STDIN_FILENO, ResetAttrs, "parent", "reset")
        /\ ppc' = "select"
        /\ UNCHANGED <<tty_origin, ws, mfd, master_fd, script_fd, pfds, buf, in_fds, iters>>
     \/ /\ ParentPanics(<<tty_origin, ws, mfd, master_fd, script_fd, pfds, buf, in_fds, iters>>)
        /\ UNCHANGED termVars
  /\ UNCHANGED <<envVars, childVars, ptyVars, readyVars, logVars>>

\* -------------------------------------------------------------- the child
\* A child that ignores the failure of a call and goes on to exec.
ChildCarriesOn ==
  /\ cpc' = "execv"
  /\ cfailed' = Some(cpc)
  /\ UNCHANGED <<cfds, slave_fd, slave_termios, slave_win_size>>

\* The child ends without exec: a panic in pty_fork (unwrap), or an Err that
\* pty_fork returns with `?` and main turns into a panic (main.rs:28), or a
\* failed execv (main.rs:35, 39).  Its descriptors are closed with it.
ChildAborts ==
  /\ cpc' = "aborted"
  /\ cfailed' = Some(cpc)
  /\ cfds' = AllClosed
  /\ UNCHANGED <<slave_fd, slave_termios, slave_win_size>>

ChildGoes(next) ==
  /\ cpc' = next
  /\ UNCHANGED <<slave_termios, slave_win_size, cfailed>>

\* main.rs:119  setsid().unwrap()
pty_fork_setsid ==
  /\ cpc = "setsid"
  /\ \/ /\ ChildGoes("close_master")
        /\ UNCHANGED <<cfds, slave_fd>>
     \/ ChildAborts
  /\ UNCHANGED <<envVars, termVars, parentVars, ptyVars, readyVars, logVars>>

\* A child branch that goes on to open the slave without closing the master.
pty_fork_keeps_master ==
  /\ cpc = "close_master"
  /\ \/ /\ ChildGoes("open_slave")
        /\ UNCHANGED <<cfds, slave_fd>>
     \/ ChildAborts
  /\ UNCHANGED <<envVars, termVars, parentVars, ptyVars, readyVars, logVars>>

\* main.rs:120  close(mfd.into_raw_fd())?
pty_fork_close_master ==
  /\ cpc = "close_master"
  /\ \/ /\ ChildGoes("open_slave")
        /\ cfds' = [cfds EXCEPT ![Get(mfd)] = Closed]
        /\ UNCHANGED slave_fd
     \/ ChildAborts
  /\ UNCHANGED <<envVars, termVars, parentVars, ptyVars, readyVars, logVars>>

\* main.rs:122  open(Path::new(&slname), O_RDWR, Mode::empty())?
\* (main.rs:125-127 is compiled for OpenBSD only.)
pty_fork_open_slave ==
  /\ cpc = "open_slave"
  /\ \/ /\ FreeFds(cfds) # {}
        /\ ChildGoes("tcsetattr_slave")
        /\ slave_fd' = Some(LowestFree(cfds))
        /\ cfds' = [cfds EXCEPT ![LowestFree(cfds)] = "pts"]
        /\ slaveOpened' = TRUE
        /\ UNCHANGED slaveWs
     \/ /\ ChildAborts
        /\ UNCHANGED ptyVars
  /\ UNCHANGED <<envVars, termVars, parentVars, readyVars, logVars>>

\* main.rs:129-131  tcsetattr(slave_fd, TCSANOW, slave_termios.unwrap())?
pty_fork_tcsetattr_slave ==
  /\ cpc = "tcsetattr_slave"
  /\ \/ /\ slave_termios # NoneOpt
        /\ SetAttrs(cfds, Get(slave_fd), Get(slave_termios), "child", "slave_termios")
        /\ ChildGoes("tcsetattr_stdin")
        /\ UNCHANGED <<cfds, slave_fd>>
     \/ /\ ChildAborts
        /\ UNCHANGED termVars
  /\ UNCHANGED <<envVars, parentVars, ptyVars, readyVars, logVars>>

\* main.rs:133  tcsetattr(STDIN_FILENO, TCSAFLUSH, slave_termios.unwrap())?
\* Descriptor 0 of the child is still the one it inherited: dup2 comes later.
pty_fork_tcsetattr_stdin ==
  /\ cpc = "tcsetattr_stdin"
  /\ \/ /\ SetAttrs(cfds, STDIN_FILENO, Get(slave_termios), "child", "stdin_termios")
        /\ ChildGoes("tiocswinsz")
        /\ UNCHANGED <<cfds, slave_fd>>
     \/ /\ ChildAborts
        /\ UNCHANGED termVars
  /\ UNCHANGED <<envVars, parentVars, ptyVars, readyVars, logVars>>

\* main.rs:134  ioctl::tiocswinsz(slave_fd, &slave_win_size)?
pty_fork_tiocswinsz ==
  /\ cpc = "tiocswinsz"
  /\ \/ /\ cfds[Get(slave_fd)] = "pts"
        /\ slaveWs' = slave_win_size
        /\ ChildGoes("dup2_stdin")
        /\ UNCHANGED <<cfds, slave_fd, slaveOpened>>
     \/ /\ ChildAborts
        /\ UNCHANGED ptyVars
  /\ UNCHANGED <<envVars, termVars, parentVars, readyVars, logVars>>

\* dup2(slave_fd, newfd)?
Dup2(newfd, next) ==
  /\ \/ /\ cfds[Get(slave_fd)] # Closed
        /\ cfds' = [cfds EXCEPT ![newfd] = cfds[Get(slave_fd)]]
        /\ ChildGoes(next)
        /\ UNCHANGED slave_fd
     \/ ChildAborts
  /\ UNCHANGED <<envVars, termVars, parentVars, ptyVars, readyVars, logVars>>

\* main.rs:136
pty_fork_dup2_stdin == cpc = "dup2_stdin" /\ Dup2(STDIN_FILENO, "dup2_stdout")

\* main.rs:137
pty_fork_dup2_stdout == cpc = "dup2_stdout" /\ Dup2(STDOUT_FILENO, "dup2_stderr")

\* main.rs:138
pty_fork_dup2_stderr == cpc = "dup2_stderr" /\ Dup2(STDERR_FILENO, "close_slave")

\* main.rs:140-142  close(slave_fd)?; Ok(ForkResult::Child)
pty_fork_close_slave ==
  /\ cpc = "close_slave"
  /\ \/ /\ cfds' = [cfds EXCEPT ![Get(slave_fd)] = Closed]
        /\ ChildGoes("execv")
        /\ UNCHANGED slave_fd
     \/ ChildAborts
  /\ UNCHANGED <<envVars, termVars, parentVars, ptyVars, readyVars, logVars>>

\* A main that drops the result of execv: after a failed exec the child goes
\* on with the statements that follow the `if` (main.rs:44-).
main_execv_falls_through ==
  /\ cpc = "execv"
  /\ \/ /\ cpc' = "shell"
        /\ UNCHANGED cfailed
     \/ /\ cpc' = "open_script"
        /\ cfailed' = Some(cpc)
  /\ UNCHANGED <<cfds, slave_fd, slave_termios, slave_win_size>>
  /\ UNCHANGED <<envVars, termVars, parentVars, ptyVars, readyVars, logVars>>

\* main.rs:31-42  execv(&shell, &[]).expect(..), with $SHELL or "/bin/sh": on
\* success the child is the shell, with the descriptors it had.
main_execv ==
  /\ cpc = "execv"
  /\ \/ /\ cpc' = "shell"
        /\ UNCHANGED <<cfds, slave_fd, slave_termios, slave_win_size, cfailed>>
     \/ ChildAborts
  /\ UNCHANGED <<envVars, termVars, parentVars, ptyVars, readyVars, logVars>>

\* The shell exits; its descriptors are closed.
shell_exit ==
  /\ cpc = "shell"
  /\ cpc' = "exited"
  /\ cfds' = AllClosed
  /\ UNCHANGED <<slave_fd, slave_termios, slave_win_size, cfailed>>
  /\ UNCHANGED <<envVars, termVars, parentVars, ptyVars, readyVars, logVars>>

\* --------------------------------------------------------- the environment
\* The pty master reports a hangup: the slave was opened and no process has
\* it open any more.  A master whose slave was never opened reports none: a
\* read of it blocks until there is output.
MasterHup == slaveOpened /\ \A fd \in Fds : cfds[fd] # "pts"

SlaveIsOpen == \E fd \in Fds : cfds[fd] = "pts"

\* The user types, or the terminal reaches end of input or fails.  select
\* samples readiness when it is called, so input that arrives while the parent
\* is elsewhere in the loop is input that has arrived when it calls select.
stdin_arrives ==
  /\ ppc = "select"
  /\ ~sReady
  /\ events < MaxEvents
  /\ sReady' = TRUE
  /\ events' = events + 1
  /\ UNCHANGED <<mReady, envVars, termVars, parentVars, childVars, ptyVars, logVars>>

\* Output of the slave side (the shell's, or the line discipline's echo)
\* reaches the master.
master_arrives ==
  /\ ppc = "select"
  /\ ~mReady
  /\ SlaveIsOpen
  /\ events < MaxEvents
  /\ mReady' = TRUE
  /\ events' = events + 1
  /\ UNCHANGED <<sReady, envVars, termVars, parentVars, childVars, ptyVars, logVars>>

\* ---------------------------------------------------------- the relay loop
\* The descriptors select reports readable (main.rs:65-69).
Ready ==
  (IF sReady THEN {STDIN_FILENO} ELSE {})
    \cup (IF mReady \/ MasterHup THEN {Get(master_fd)} ELSE {})

\* main.rs:64-69  a new iteration: buf is zeroed, select blocks until a
\* descriptor is readable and leaves the readable ones in in_fds.
main_select ==
  /\ ppc = "select"
  /\ Ready # {}
  /\ buf' = Zeros
  /\ in_fds' = Ready
  /\ iters' = iters + 1
  /\ ppc' = IF STDIN_FILENO \in Ready THEN "read_stdin" ELSE "read_master"
  /\ calls' = <<>>
  /\ UNCHANGED <<tty_origin, ws, mfd, master_fd, script_fd, pfds>>
  /\ UNCHANGED <<stdinRead, masterWritten, masterRead, stdoutWritten, scriptFile,
                 transcript, eofMark, partial>>
  /\ UNCHANGED <<envVars, termVars, childVars, ptyVars, readyVars>>

\* main.rs:69  select(..).unwrap() on an error of select
main_select_err ==
  /\ ppc = "select"
  /\ ParentPanics(<<tty_origin, ws, mfd, master_fd, script_fd, pfds, buf, in_fds, iters>>)
  /\ UNCHANGED <<envVars, termVars, childVars, ptyVars, readyVars, logVars>>

\* What has been forwarded so far, recorded when a read returns 0 bytes.
Forwarded ==
  [master |-> Len(masterWritten), stdout |-> Len(stdoutWritten),
   script |-> Len(transcript), iters |-> iters]

MarkEof(block) == IF block = <<>> /\ eofMark = NoneOpt THEN Some(Forwarded) ELSE eofMark

\* A loop that starts its next iteration after the standard-input half.
AfterStdinSkipsMaster == "select"

\* Where the loop goes after the standard-input half (main.rs:78).
AfterStdin == IF Get(master_fd) \in in_fds THEN "read_master" ELSE "select"

\* A call of the loop body returned: Ok with the bytes read or taken, or Err.
Called(call, ok, data) == Append(calls, [call |-> call, ok |-> ok, data |-> data])

\* A loop that goes on to its next iteration when a read fails.
AfterReadErrContinue == "select"

\* Where main goes when a read fails (main.rs:73, 80): return.
AfterReadErr == "returned"

\* main.rs:71-74  if read(STDIN_FILENO, &mut buf).is_err() { return; }
main_read_stdin ==
  /\ ppc = "read_stdin"
  /\ sReady' = FALSE
  /\ \/ /\ ppc' = AfterReadErr
        /\ calls' = Called("read_stdin", FALSE, <<>>)
        /\ UNCHANGED <<buf, stdinRead, masterWritten, masterRead, stdoutWritten,
                       scriptFile, transcript, eofMark, partial>>
     \/ \E block \in Blocks :
          /\ buf' = ReadInto(buf, block)
          /\ stdinRead' = stdinRead \o block
          /\ eofMark' = MarkEof(block)
          /\ calls' = Called("read_stdin", TRUE, block)
          /\ ppc' = "write_master"
          /\ UNCHANGED <<masterWritten, masterRead, stdoutWritten, scriptFile, transcript,
                         partial>>
  /\ UNCHANGED <<tty_origin, ws, mfd, master_fd, script_fd, pfds, in_fds, iters>>
  /\ UNCHANGED <<mReady, events, envVars, termVars, childVars, ptyVars>>

\* The bytes a write call that returned Ok(k) took from the buffer it was given.
Taken(b, k) == SubSeq(b, 1, k)

\* The buffer main hands to write (main.rs:75, 82, 83): &buf, all of it.
WriteArg(b) == b

\* main.rs:75  write(master_fd, &buf).unwrap()
main_write_master ==
  /\ ppc = "write_master"
  /\ \/ /\ \E k \in 1..Len(WriteArg(buf)) :
             /\ masterWritten' = masterWritten \o Taken(WriteArg(buf), k)
             /\ partial' = (partial \/ k < Len(WriteArg(buf)))
             /\ calls' = Called("write_master", TRUE, Taken(WriteArg(buf), k))
        /\ ppc' = AfterStdin
     \/ /\ ppc' = "panicked"
        /\ calls' = Called("write_master", FALSE, <<>>)
        /\ UNCHANGED <<masterWritten, partial>>
  /\ UNCHANGED <<tty_origin, ws, mfd, master_fd, script_fd, pfds, buf, in_fds, iters>>
  /\ UNCHANGED <<stdinRead, masterRead, stdoutWritten, scriptFile, transcript, eofMark>>
  /\ UNCHANGED <<envVars, termVars, childVars, ptyVars, readyVars>>

\* The blocks a read of the master can return: pending output gives at least
\* one byte; on a hangup the read fails (Linux) or returns 0 bytes (BSD).
MasterBlocks ==
  IF mReady THEN Blocks \ {<<>>}
  ELSE IF events < MaxEvents THEN {<<>>} ELSE {}

\* A loop body that writes the transcript right after the master read.
AfterMasterReadScriptFirst == "write_script"

\* The call that follows a master read that returned Ok (main.rs:82).
AfterMasterRead == "write_stdout"

\* main.rs:78-81  if read(master_fd, &mut buf).is_err() { return; }
main_read_master ==
  /\ ppc = "read_master"
  /\ mReady' = FALSE
  /\ \/ /\ ppc' = AfterReadErr
        /\ calls' = Called("read_master", FALSE, <<>>)
        /\ UNCHANGED <<buf, events, stdinRead, masterWritten, masterRead, stdoutWritten,
                       scriptFile, transcript, eofMark, partial>>
     \/ \E block \in MasterBlocks :
          /\ buf' = ReadInto(buf, block)
          /\ masterRead' = masterRead \o block
          /\ eofMark' = MarkEof(block)
          /\ calls' = Called("read_master", TRUE, block)
          /\ events' = IF block = <<>> THEN events + 1 ELSE events
          /\ ppc' = AfterMasterRead
          /\ UNCHANGED <<stdinRead, masterWritten, stdoutWritten, scriptFile, transcript,
                         partial>>
  /\ UNCHANGED <<tty_origin, ws, mfd, master_fd, script_fd, pfds, in_fds, iters>>
  /\ UNCHANGED <<sReady, envVars, termVars, childVars, ptyVars>>

\* main.rs:82  write(STDOUT_FILENO, &buf).unwrap()
\* Descriptor 1 is the pty master itself when the program was started with
\* descriptor 1 closed: posix_openpt returned 1.
main_write_stdout ==
  /\ ppc = "write_stdout"
  /\ \/ /\ \E k \in 1..Len(WriteArg(buf)) :
             /\ stdoutWritten' = stdoutWritten \o Taken(WriteArg(buf), k)
             /\ masterWritten' = IF pfds[STDOUT_FILENO] = "ptmx"
                                 THEN masterWritten \o Taken(WriteArg(buf), k)
                                 ELSE masterWritten
             /\ partial' = (partial \/ k < Len(WriteArg(buf)))
             /\ calls' = Called("write_stdout", TRUE, Taken(WriteArg(buf), k))
        /\ ppc' = "write_script"
     \/ /\ ppc' = "panicked"
        /\ calls' = Called("write_stdout", FALSE, <<>>)
        /\ UNCHANGED <<stdoutWritten, masterWritten, partial>>
  /\ UNCHANGED <<tty_origin, ws, mfd, master_fd, script_fd, pfds, buf, in_fds, iters>>
  /\ UNCHANGED <<stdinRead, masterRead, scriptFile, transcript, eofMark>>
  /\ UNCHANGED <<envVars, termVars, childVars, ptyVars, readyVars>>

\* main.rs:83  write(script_fd, &buf).unwrap()
main_write_script ==
  /\ ppc = "write_script"
  /\ \/ /\ \E k \in 1..Len(WriteArg(buf)) :
             /\ transcript' = transcript \o Taken(WriteArg(buf), k)
             /\ partial' = (partial \/ k < Len(WriteArg(buf)))
             /\ calls' = Called("write_script", TRUE, Taken(WriteArg(buf), k))
        /\ ppc' = "select"
     \/ /\ ppc' = "panicked"
        /\ calls' = Called("write_script", FALSE, <<>>)
        /\ UNCHANGED <<transcript, partial>>
  /\ UNCHANGED <<tty_origin, ws, mfd, master_fd, script_fd, pfds, buf, in_fds, iters>>
  /\ UNCHANGED <<stdinRead, masterWritten, masterRead, stdoutWritten, scriptFile, eofMark>>
  /\ UNCHANGED <<envVars, termVars, childVars, ptyVars, readyVars>>

\* ------------------------------------------------------ the specification
ParentStep ==
  \/ main_tcgetattr
  \/ main_tiocgwinsz
  \/ pty_master_open
  \/ pty_fork_fork
  \/ main_open_script
  \/ tty_set_row_get
  \/ tty_set_row_set
  \/ tty_reset
  \/ main_select
  \/ main_read_stdin
  \/ main_write_master
  \/ main_read_master
  \/ main_write_stdout
  \/ main_write_script

ChildStep ==
  \/ pty_fork_setsid
  \/ pty_fork_close_master
  \/ pty_fork_open_slave
  \/ pty_fork_tcsetattr_slave
  \/ pty_fork_tcsetattr_stdin
  \/ pty_fork_tiocswinsz
  \/ pty_fork_dup2_stdin
  \/ pty_fork_dup2_stdout
  \/ pty_fork_dup2_stderr
  \/ pty_fork_close_slave
  \/ main_execv

EnvStep ==
  \/ stdin_arrives
  \/ master_arrives
  \/ main_select_err
  \/ shell_exit

Next == ParentStep \/ ChildStep \/ EnvStep

Spec == Init /\ [][Next]_vars

\* The scheduler runs a process that can take a step: each system call of the
\* parent and of the child returns.  Nothing obliges the environment to make
\* input arrive, select to fail or the shell to exit.
FairSpec == Spec /\ WF_vars(ParentStep) /\ WF_vars(ChildStep)

\* The program started with any of the descriptor tables.
SpecFds == InitFds /\ [][Next]_vars

\* ------------------------------------------------------------- properties
RelayPcs == {"select", "read_stdin", "write_master", "read_master",
             "write_stdout", "write_script"}

ParentExited == ppc \in {"returned", "panicked"}

\* A relay-loop iteration has just ended and no read so far returned 0 bytes
\* and no write so far was partial: every read returned 1..BufSize bytes and
\* every write took the whole buffer it was given.
BetweenIterations == ppc = "select" /\ eofMark = NoneOpt /\ ~partial

\* C1 (input relay exactness): after any number of relay-loop iterations the
\* bytes written to the pty master are exactly the bytes that the reads of
\* standard input returned: same bytes, same order, same length.
C1_InputRelayExact == BetweenIterations => masterWritten = stdinRead

\* C2 (output relay exactness): after any number of relay-loop iterations the
\* bytes written to standard output are exactly the bytes that the reads of
\* the pty master returned, in the order received.
C2_OutputRelayExact == BetweenIterations => stdoutWritten = masterRead

\* C3 (tee fidelity): in every terminated state of the recorder, however it
\* ended, the transcript file holds exactly the bytes that were written to
\* standard output.
C3_TeeFidelity == ParentExited /\ scriptFile # NoneOpt => transcript = stdoutWritten

\* The terminal is in raw mode: tty_set_row would change nothing.
IsRaw(t) == t = RawOf(t)

\* The times the snapshot was written back to the real terminal.
Restores == Cardinality({i \in DOMAIN ttySets : ttySets[i].op = "reset"})

\* C4 (raw mode spans the relay): while the relay loop runs the real terminal
\* is in raw mode and the snapshot has not been written back; it is written
\* back once only, after the loop has ended.
C4_RawSpansRelay ==
  /\ ppc \in RelayPcs => IsRaw(realTerm) /\ Restores = 0
  /\ Restores <= 1

\* Calls of the named kind that set the real terminal's attributes.
SetsOf(op) == {i \in DOMAIN ttySets : ttySets[i].op = op}

RawEntered == SetsOf("raw") # {}

C6_EofEndsSession ==
  eofMark # NoneOpt => ParentExited /\ Forwarded = Get(eofMark)

ChildGone == cpc \in {"exited", "aborted"}

\* C7 (session end is reached): whenever the forked child has exited (the
\* shell exited, or the child aborted during its setup), the parent
\* eventually leaves the relay loop and exits.
C7_SessionEndReached == ChildGone ~> ParentExited

\* C8 (transcript-open failure leaves the terminal untouched): in the step in
\* which opening the transcript file fails and main aborts, no process has
\* set the real terminal's attributes, which are those of program start.
C8_OpenFailureUntouched ==
  [][ppc = "open_script" /\ ppc' = "panicked"
       => ttySets = <<>> /\ realTerm = startTerm]_vars

\* C9 (transcript path selection): the file opened as transcript is the one the
\* positional argument names when it is given, and a file in the current
\* working directory when it is omitted.
C9_TranscriptPath ==
  scriptFile # NoneOpt =>
    IF args # <<>>
    THEN Get(scriptFile) = Resolve(args[1], cwd)
    ELSE Get(scriptFile).dir = cwd

\* C10 (window-size round trip): whenever the child has reached exec, the
\* window size of the pty slave is the one the real terminal reported.
C10_WinsizeRoundTrip == cpc \in {"execv", "shell"} => slaveWs = realWs

\* C10 witness: the child runs the shell on a slave with the terminal's size.
C10_Witness == cpc = "shell" /\ slaveWs = realWs /\ slaveWs # ZeroWinsize

\* The child has not yet called tcsetattr on the pty slave (main.rs:130).
BeforeSlaveAttrs == {"setsid", "close_master", "open_slave", "tcsetattr_slave"}

\* C11 (lifecycle ordering under interleaving): once the parent has switched
\* the real terminal to raw mode, the snapshot has been captured and the child
\* is past its application of the original attributes to the pty slave.
C11_SlaveAttrsBeforeRaw ==
  RawEntered => tty_origin # NoneOpt /\ cpc \notin BeforeSlaveAttrs

\* C12 (slave gets the pre-raw attributes): whenever the child has reached
\* exec, the attributes of the pty slave are those the real terminal had at
\* program start, whatever the parent has done to the real terminal.
C12_SlaveGetsPreRaw == cpc \in {"execv", "shell"} => slaveTerm = startTerm

\* C12 witness: the child is at exec with the start attributes on the slave
\* while the parent has already put the real terminal into raw mode.
C12_Witness ==
  /\ cpc = "execv"
  /\ slaveTerm = startTerm
  /\ RawEntered
  /\ IsRaw(realTerm)
  /\ realTerm # slaveTerm

\* The positions in calls of the calls named call.
CallsOf(call) == {i \in DOMAIN calls : calls[i].call = call}

FailedReads == {i \in CallsOf("read_stdin") \cup CallsOf("read_master") : ~calls[i].ok}

\* C13 (read failure ends the loop cleanly): when a read of standard input or
\* of the pty master has returned an error, it is the last call of the loop (no
\* write for it, no further read), no new readiness wait was started, and main
\* has returned rather than panicked.
C13_ReadFailureEndsLoop ==
  \A i \in FailedReads : i = Len(calls) /\ ppc = "returned"

\* C13 witness: standard input was read and forwarded, then the read of the
\* master failed and main returned.
C13_Witness ==
  /\ ppc = "returned"
  /\ Len(calls) = 3
  /\ calls[1].call = "read_stdin" /\ calls[1].ok
  /\ calls[2].call = "write_master" /\ calls[2].ok
  /\ calls[3].call = "read_master" /\ ~calls[3].ok

\* C14 (terminal output is not gated on the transcript): in every iteration,
\* the call that follows a successful master read is the write to standard
\* output, and a write to the transcript, whether it succeeds or fails, is
\* attempted only after that write to standard output has returned Ok.  (The
\* order and the presence of the calls; what they carry is the matter of C2.)
C14_StdoutBeforeTranscript ==
  /\ \A i \in CallsOf("read_master") :
       calls[i].ok /\ i < Len(calls) => calls[i + 1].call = "write_stdout"
  /\ \A i \in CallsOf("write_script") :
       /\ i > 1
       /\ calls[i - 1].call = "write_stdout"
       /\ calls[i - 1].ok

\* C14 witness: the write to the transcript failed and the write to standard
\* output of the same iteration had been made.
C14_Witness ==
  /\ ppc = "panicked"
  /\ calls # <<>>
  /\ calls[Len(calls)].call = "write_script"
  /\ ~calls[Len(calls)].ok
  /\ calls[Len(calls) - 1].call = "write_stdout"
  /\ stdoutWritten # <<>>

\* How many calls named call the iteration must hold for descriptor fd.
Expected(fd) == IF fd \in in_fds THEN 1 ELSE 0

\* C15 (one cycle per readiness notification): when the loop is about to wait
\* for readiness again, the iteration that just ended has read each descriptor
\* that was reported ready once and forwarded once for it (one write to the
\* master for standard input; one write to standard output and one to the
\* transcript for the master), and made no call for a descriptor not reported.
C15_OneCyclePerNotification ==
  ppc = "select" =>
    /\ Cardinality(CallsOf("read_stdin")) = Expected(STDIN_FILENO)
    /\ Cardinality(CallsOf("write_master")) = Expected(STDIN_FILENO)
    /\ \A call \in {"read_master", "write_stdout", "write_script"} :
         Cardinality(CallsOf(call)) =
           IF master_fd # NoneOpt THEN Expected(Get(master_fd)) ELSE 0

\* C15 witness: an iteration in which both descriptors were reported ready has
\* ended with its five calls.
C15_Witness ==
  /\ ppc = "select"
  /\ in_fds = {STDIN_FILENO, Get(master_fd)}
  /\ Len(calls) = 5

\* The calls of the child branch of pty_fork (main.rs:119-140).
SetupCalls == {"setsid", "close_master", "open_slave", "tcsetattr_slave",
               "tcsetattr_stdin", "tiocswinsz", "dup2_stdin", "dup2_stdout",
               "dup2_stderr", "close_slave"}

\* C16 (child setup failure is fatal to the child): once a call of the child
\* branch has failed, the child has terminated; it is not at exec and has not
\* become the shell.
C16_SetupFailureFatal ==
  cfailed # NoneOpt /\ Get(cfailed) \in SetupCalls => cpc = "aborted"

\* C16 witness: the last call of the setup, closing the slave, failed after
\* the three duplications, and the child has terminated.
C16_Witness ==
  /\ cfailed = Some("close_slave")
  /\ cpc = "aborted"
  /\ slaveOpened

\* The positions of main after the `if fork_result.is_child()` block
\* (main.rs:44-85): the code only the parent is meant to run.
ParentOnlyPcs == {"open_script", "tty_set_row_get", "tty_set_row_set", "tty_reset"}
                   \cup RelayPcs \cup {"returned"}

\* The step is one of the child process.
ChildMoves == cpc # "unborn" /\ cpc' # cpc

\* C17 (the child never runs parent code): the child is never at a position
\* of main after the exec block, not even when exec failed, in which case it
\* has terminated; it holds no descriptor on the transcript file; and no step
\* of the child puts the real terminal into raw mode.
C17_ChildNeverRunsParentCode ==
  /\ [](/\ cpc \notin ParentOnlyPcs
        /\ (cfailed = Some("execv") => cpc = "aborted")
        /\ \A fd \in Fds : cfds[fd] # "script")
  /\ [][ChildMoves /\ realTerm' # realTerm => ~IsRaw(realTerm')]_vars

\* C17 witness: exec failed and the child has terminated, after having set the
\* real terminal's attributes itself, while the parent runs the relay loop.
C17_Witness ==
  /\ cfailed = Some("execv")
  /\ cpc = "aborted"
  /\ ppc \in RelayPcs
  /\ \E i \in DOMAIN ttySets : ttySets[i].by = "child"

\* C18 (descriptor ownership after fork): from the moment the child has opened
\* the slave, no descriptor of the child is open on the pty master, and no
\* descriptor of the parent is ever open on the pty slave.
C18_DescriptorOwnership ==
  /\ cpc # "unborn" /\ slave_fd # NoneOpt => \A fd \in Fds : cfds[fd] # "ptmx"
  /\ \A fd \in Fds : pfds[fd] # "pts"

\* C18 witness: the child is at exec with the slave open and no master, while
\* the parent holds the master.
C18_Witness ==
  /\ cpc = "execv"
  /\ SlaveIsOpen
  /\ \A fd \in Fds : cfds[fd] # "ptmx"
  /\ master_fd # NoneOpt
  /\ pfds[Get(master_fd)] = "ptmx"

\* C19 (child standard streams): when the child has returned from its setup,
\* its descriptors 0, 1 and 2 are open on the pty slave, and the descriptor
\* the slave was opened on is closed exactly if it is none of 0, 1 and 2.
C19_ChildStandardStreams ==
  cpc = "execv" =>
    /\ \A fd \in 0..STDERR_FILENO : cfds[fd] = "pts"
    /\ cfds[Get(slave_fd)] = Closed <=> Get(slave_fd) > STDERR_FILENO

\* The blocks the read of standard input of the current iteration could have
\* returned in another run: any block if standard input was read, else none.
OtherStdin == IF \E i \in CallsOf("read_stdin") : calls[i].ok THEN Blocks ELSE {}

\* buf after the master read returned mblock in a run whose read of standard
\* input, earlier in the same iteration, returned sblock (main.rs:64, 72, 79).
Replay(sblock, mblock) == ReadInto(ReadInto(Zeros, sblock), mblock)

\* C20 (no input leaks into the recording): the bytes a write to standard
\* output or to the transcript took are those it would have taken in a run
\* with the same master read and any other bytes read from standard input in
\* that iteration.  Stated for runs in which every read returned at least one
\* byte.
C20_NoInputLeak ==
  \A i \in CallsOf("write_stdout") \cup CallsOf("write_script") :
    calls[i].ok /\ eofMark = NoneOpt =>
      \A other \in OtherStdin :
        LET r == CHOOSE j \in CallsOf("read_master") : j < i
        IN  Taken(WriteArg(Replay(other, calls[r].data)), Len(calls[i].data))
              = calls[i].data

====
